---- MODULE Spec2Model ----
(***************************************************************************)
(* A model of the plugged crate (src/src/lib.rs): Plugin::new loads and    *)
(* instantiates a WebAssembly module with an empty import set,             *)
(* Plugin::function binds an export to host types after comparing          *)
(* signatures, and the returned closure marshals the host arguments, calls *)
(* the guest through the plugin's RefCell<Store> and marshals the result   *)
(* back.                                                                   *)
(*                                                                         *)
(* Host code runs on threads.  A Plugin holds a RefCell and is therefore   *)
(* not Sync, and a Function borrows its Plugin, so a plugin and its        *)
(* callables are used by the thread that owns the plugin.  The argument    *)
(* and result conversions of the closure (into_array, from_slice) run      *)
(* conversion code of the host types inside the closure, so a thread can   *)
(* start a nested load, bind or invocation while one of its invocations    *)
(* is between borrow_mut and return: each thread has a stack of frames.    *)
(***************************************************************************)
EXTENDS Integers, Sequences, FiniteSets, TLC

\* ------------------------------------------------------------------ bounds

MaxPlugins == 2
MaxDepth == 2
NThreads == 2

Threads == 1 .. NThreads

\* ------------------------------------------------- 32-bit integer helpers

\* A raw slot holds a bit pattern, written as 16-bit limbs, lowest first: two
\* limbs for a 32-bit kind, four for a 64-bit kind.
Limb == 65536
HalfLimb == 32768

\* the 32-bit pattern of an integer
Bits32(v) == <<v % Limb, (v \div Limb) % Limb>>

\* the two's complement reading of a 32-bit pattern
Signed32(b) ==
    IF b[2] >= HalfLimb THEN (b[2] - Limb) * Limb + b[1] ELSE b[2] * Limb + b[1]

\* the 64-bit pattern of an integer
Bits64(v) ==
    <<v % Limb, (v \div Limb) % Limb,
      ((v \div Limb) \div Limb) % Limb, (((v \div Limb) \div Limb) \div Limb) % Limb>>

\* the two's complement reading of a 64-bit pattern that fits 32 bits
Signed64(b) == Signed32(<<b[1], b[2]>>)

\* i32.add on bit patterns: addition modulo 2^32
Add32(x, y) ==
    LET lo == x[1] + y[1]
        hi == x[2] + y[2] + (lo \div Limb)
    IN <<lo % Limb, hi % Limb>>

\* ------------------------------------------------------------ host types

\* Host types implementing FromToNativeWasmType that the model binds with.
HostTypes == {"i32", "i64"}

\* The value kind of a host type (its Native type's WASM_TYPE).
WasmType(h) ==
    CASE h = "i32" -> "I32"
      [] h = "i64" -> "I64"

\* Args::wasm_types() / Rets::wasm_types(): one kind per element, in order.
WasmTypes(hs) == [i \in 1 .. Len(hs) |-> WasmType(hs[i])]

\* FunctionType::new(params, results)
FunctionType(params, results) == [params |-> params, results |-> results]

\* The host signatures the model binds with.
ArgLists == {<<"i32">>, <<"i32", "i32">>, <<"i32", "i64">>}
RetLists == {<<>>, <<"i32">>, <<"i64">>}

\* The argument tuples the model invokes a callable of argument types hs
\* with.
ArgTuples(hs) ==
    CASE hs = <<"i32">> -> {<<42>>, <<0>>, <<-1>>}
      [] hs = <<"i32", "i32">> -> {<<42, 1>>, <<2147483647, 1>>, <<-1, 42>>}
      [] hs = <<"i32", "i64">> -> {<<42, 7>>}

\* ------------------------------------------- file system and the engine

\* The paths Plugin::new is called with.
Paths == {"missing.wasm", "garbage.wasm", "imports.wasm", "add.wat", "cell.wasm"}

\* std::fs::read: the file's bytes, or an I/O error.
ReadFile(path) ==
    CASE path = "missing.wasm" -> [ok |-> FALSE, bytes |-> "none"]
      [] path = "garbage.wasm" -> [ok |-> TRUE, bytes |-> "not-wasm"]
      [] path = "imports.wasm" -> [ok |-> TRUE, bytes |-> "wasm-imports"]
      [] path = "add.wat" -> [ok |-> TRUE, bytes |-> "wasm-add"]
      [] path = "cell.wasm" -> [ok |-> TRUE, bytes |-> "wasm-cell"]

\* Module::new: the compiled module, or a compile error.
Compile(bytes) ==
    CASE bytes = "wasm-imports" -> [ok |-> TRUE, module |-> "imports"]
      [] bytes = "wasm-add" -> [ok |-> TRUE, module |-> "add"]
      [] bytes = "wasm-cell" -> [ok |-> TRUE, module |-> "cell"]
      [] OTHER -> [ok |-> FALSE, module |-> "none"]

\* The imports a module declares.
ModuleImports(module) == IF module = "imports" THEN {"env.log"} ELSE {}

\* An instantiation that does not resolve the imports.
InstantiateIgnoringImports(module, importObjects) == TRUE

\* Instance::new(store, module, imports): every declared import must be
\* supplied.
InstantiateOk(module, importObjects) == ModuleImports(module) \subseteq importObjects

\* The export names the model binds.
Names == {"add", "swap", "mem", "nope"}

\* The exports of a module: add exports the function add; cell exports swap,
\* which stores its nonzero argument in a global and returns the global's
\* old value, and its memory mem.
ModuleExports(module) ==
    CASE module = "add" ->
            [n \in {"add"} |-> [kind |-> "func", ty |-> FunctionType(<<"I32", "I32">>, <<"I32">>)]]
      [] module = "cell" ->
            [n \in {"swap", "mem"} |->
                CASE n = "swap" -> [kind |-> "func", ty |-> FunctionType(<<"I32">>, <<"I32">>)]
                  [] n = "mem" -> [kind |-> "memory", ty |-> FunctionType(<<>>, <<>>)]]
      [] OTHER -> [n \in {} |-> [kind |-> "func", ty |-> FunctionType(<<>>, <<>>)]]

\* A lookup that takes any export of that name, function or not.
GetFunctionAnyExport(module, name) ==
    IF name \notin DOMAIN ModuleExports(module)
    THEN [ok |-> FALSE, err |-> "Missing"]
    ELSE [ok |-> TRUE, err |-> "none"]

\* instance.exports.get_function(name)
GetFunction(module, name) ==
    LET ex == ModuleExports(module)
    IN IF name \notin DOMAIN ex THEN [ok |-> FALSE, err |-> "Missing"]
       ELSE IF ex[name].kind # "func" THEN [ok |-> FALSE, err |-> "IncompatibleType"]
       ELSE [ok |-> TRUE, err |-> "none"]

\* f.ty(store): the export's signature.
Ty(module, name) == ModuleExports(module)[name].ty

\* The guest code of add.wat: i32.add.
GuestAdd(a, b) == Signed32(Add32(Bits32(a), Bits32(b)))

\* The guest code of an exported function on the values vs (a sequence of
\* [ty, v]) with the store's global glob: the results, the new global, or a
\* trap.
GuestEval(module, name, vs, glob) ==
    CASE module = "add" /\ name = "add" ->
            [trap |-> FALSE, res |-> <<[ty |-> "I32", v |-> GuestAdd(vs[1].v, vs[2].v)]>>, glob |-> glob]
      [] module = "cell" /\ name = "swap" ->
            IF vs[1].v = 0
            THEN [trap |-> TRUE, res |-> <<>>, glob |-> glob]
            ELSE [trap |-> FALSE, res |-> <<[ty |-> "I32", v |-> glob]>>, glob |-> vs[1].v]

\* Function::call(store, args): the engine rejects arguments whose kinds
\* are not the function's parameters, else runs the guest.
EngineCall(module, name, vs, glob) ==
    IF [i \in 1 .. Len(vs) |-> vs[i].ty] # Ty(module, name).params
    THEN [trap |-> TRUE, res |-> <<>>, glob |-> glob]
    ELSE GuestEval(module, name, vs, glob)

\* ------------------------------------------------------------ marshalling

\* FromToNativeWasmType::to_native (`self as Native`) followed by
\* NativeWasmTypeInto::into_raw: the raw slot.
ToRaw(h, v) ==
    CASE h = "i32" -> Bits32(v)
      [] h = "i64" -> Bits64(v)

\* The raw slots in reverse order.
IntoArrayReversed(hs, args) ==
    [i \in 1 .. Len(args) |-> ToRaw(hs[Len(args) + 1 - i], args[Len(args) + 1 - i])]

\* args.into_array(store): one raw slot per argument, in order.
IntoArray(hs, args) == [i \in 1 .. Len(args) |-> ToRaw(hs[i], args[i])]

\* Value::from_raw(store, ty, raw): the slot read as the kind ty.
ValueFromRaw(ty, raw) ==
    CASE ty = "I32" -> [ty |-> "I32", v |-> Signed32(raw)]
      [] ty = "I64" -> [ty |-> "I64", v |-> Signed64(raw)]

\* args.iter().zip(types.iter()).map(Value::from_raw).collect()
ZipValues(raws, types) ==
    [i \in 1 .. (IF Len(raws) < Len(types) THEN Len(raws) ELSE Len(types)) |->
        ValueFromRaw(types[i], raws[i])]

\* ret.as_raw(store)
AsRaw(val) ==
    CASE val.ty = "I32" -> Bits32(val.v)
      [] val.ty = "I64" -> Bits64(val.v)

\* NativeWasmTypeInto::from_raw followed by FromToNativeWasmType::from_native
\* (`native as Self`).
FromRaw(h, raw) ==
    CASE h = "i32" -> Signed32(raw)
      [] h = "i64" -> Signed64(raw)

\* Rets::from_slice(store, raws): fails when the slice has another length
\* than Rets.
FromSlice(hs, raws) ==
    IF Len(raws) # Len(hs) THEN [ok |-> FALSE, val |-> <<>>]
    ELSE [ok |-> TRUE, val |-> [i \in 1 .. Len(hs) |-> FromRaw(hs[i], raws[i])]]

\* ------------------------------------------------------------------ state

VARIABLES
    plugins,    \* the Loaded Plugins, in creation order: [path, module, store, owner]
    stores,     \* the execution contexts: [flag, glob]; flag is the RefCell's borrow
                \* flag (0 free, -1 mutably borrowed, n > 0 shared n times), glob the
                \* guest state held in the Store
    callables,  \* the Function values that exist: [plugin, name, hargs, hrets]
    stack,      \* per thread, the invocations in progress, innermost last
    panicking,  \* per thread, whether a panic is unwinding
    last        \* the operation that has just returned, with its result, until
                \* its caller has taken the result; op "panic" for a bind or an
                \* invocation that panicked instead of returning

vars == <<plugins, stores, callables, stack, panicking, last>>

NoSig == FunctionType(<<>>, <<>>)

NoOp ==
    [t |-> 0, op |-> "none", kind |-> "none", plugin |-> 0, path |-> "none",
     name |-> "none", hargs |-> <<>>, hrets |-> <<>>, args |-> <<>>, val |-> <<>>,
     actual |-> NoSig, expected |-> NoSig, acq |-> "none", ncalls |-> 0,
     conv |-> FALSE, ub |-> FALSE, stages |-> <<>>]

Init ==
    /\ plugins = <<>>
    /\ stores = <<>>
    /\ callables = {}
    /\ stack = [t \in Threads |-> <<>>]
    /\ panicking = [t \in Threads |-> FALSE]
    /\ last = NoOp

Top(t) == stack[t][Len(stack[t])]
Pop(t) == SubSeq(stack[t], 1, Len(stack[t]) - 1)

\* Host code of thread t is running: at top level, or inside the argument or
\* result conversion of its innermost invocation.
HostRunning(t) ==
    /\ last.op = "none"
    /\ ~panicking[t]
    /\ IF stack[t] = <<>> THEN TRUE ELSE Top(t).pc \in {"marshal", "unmarshal"}

\* ------------------------------------------------------------- RefCell

\* A mutable borrow without the test of the flag (an UnsafeCell).
BorrowMutUnchecked(flag) == [ok |-> TRUE, flag |-> -1]

\* RefCell::borrow_mut: succeeds only on a free cell, else panics.
BorrowMut(flag) ==
    IF flag = 0 THEN [ok |-> TRUE, flag |-> -1] ELSE [ok |-> FALSE, flag |-> flag]

\* A shared borrow without the test of the flag.
BorrowUnchecked(flag) == [ok |-> TRUE, flag |-> flag]

\* RefCell::borrow: succeeds unless the cell is mutably borrowed, else panics.
\* The Ref is a temporary of the statement and is dropped at its end.
Borrow(flag) ==
    IF flag >= 0 THEN [ok |-> TRUE, flag |-> flag] ELSE [ok |-> FALSE, flag |-> flag]

\* A RefMut that is forgotten instead of dropped.
DropRefMutLeak(flag) == flag

\* The RefMut `store` goes out of scope: at the closure's end, at the early
\* return of `?`, or while a panic unwinds through the closure.
DropRefMut(flag) == flag + 1

\* ----------------------------------------------------------- Plugin::new

\* A store shared by the plugins of one module instead of a new one.
NewStoreShared(ps, ss, module) ==
    IF \E q \in 1 .. Len(ps) : ps[q].module = module
    THEN ps[CHOOSE q \in 1 .. Len(ps) : ps[q].module = module].store
    ELSE Len(ss) + 1

\* Store::default(): a new execution context.
NewStore(ps, ss, module) == Len(ss) + 1

\* Plugin::new(path): read, compile, instantiate with imports! {}; each
\* failure is returned as LoadError by `?`.
New(path) ==
    LET rd == ReadFile(path)
        cm == Compile(rd.bytes)
    IN IF ~rd.ok
       THEN [kind |-> "LoadError", stages |-> <<"read">>, module |-> "none"]
       ELSE IF ~cm.ok
       THEN [kind |-> "LoadError", stages |-> <<"read", "compile">>, module |-> "none"]
       ELSE IF ~InstantiateOk(cm.module, {})
       THEN [kind |-> "LoadError", stages |-> <<"read", "compile", "instantiate">>,
             module |-> "none"]
       ELSE [kind |-> "Ok", stages |-> <<"read", "compile", "instantiate">>,
             module |-> cm.module]

Load(t, path) ==
    LET r == New(path)
        sid == NewStore(plugins, stores, r.module)
    IN /\ HostRunning(t)
       /\ r.kind = "Ok" => Len(plugins) < MaxPlugins
       /\ IF r.kind = "Ok"
          THEN /\ plugins' = Append(plugins,
                        [path |-> path, module |-> r.module, store |-> sid, owner |-> t])
               /\ stores' = IF sid > Len(stores)
                            THEN Append(stores, [flag |-> 0, glob |-> 0])
                            ELSE stores
          ELSE UNCHANGED <<plugins, stores>>
       /\ last' = [NoOp EXCEPT !.t = t, !.op = "load", !.kind = r.kind, !.path = path,
                               !.stages = r.stages,
                               !.plugin = IF r.kind = "Ok" THEN Len(plugins) + 1 ELSE 0]
       /\ UNCHANGED <<callables, stack, panicking>>

\* ------------------------------------------------------ Plugin::function

\* A comparison that looks at the parameters alone.
SignatureDiffersParamsOnly(actual, expected) == actual.params # expected.params

\* actual != expected
SignatureDiffers(actual, expected) == actual # expected

\* The error built with its two fields exchanged.
TypeMismatchErrorSwapped(actual, expected) == [actual |-> expected, expected |-> actual]

\* PluginError::TypeMismatchError { actual, expected }
TypeMismatchError(actual, expected) == [actual |-> actual, expected |-> expected]

\* Plugin::function::<Args, Rets>(name) on plugin p: the export lookup, the
\* signature read through store.borrow(), the comparison.
function(p, name, Args, Rets) ==
    LET module == plugins[p].module
        flag == stores[plugins[p].store].flag
        f == GetFunction(module, name)
        b == Borrow(flag)
        held == IF flag = 0 THEN "free" ELSE "held"
        actual == Ty(module, name)
        expected == FunctionType(WasmTypes(Args), WasmTypes(Rets))
        e == TypeMismatchError(actual, expected)
    IN IF ~f.ok
       THEN [kind |-> "ExportError", acq |-> "none", actual |-> NoSig, expected |-> NoSig]
       ELSE IF ~b.ok
       THEN [kind |-> "Panic", acq |-> held, actual |-> NoSig, expected |-> NoSig]
       ELSE IF SignatureDiffers(actual, expected)
       THEN [kind |-> "TypeMismatchError", acq |-> held,
             actual |-> e.actual, expected |-> e.expected]
       ELSE [kind |-> "Ok", acq |-> held, actual |-> NoSig, expected |-> NoSig]

Bind(t, p, name, Args, Rets) ==
    LET r == function(p, name, Args, Rets)
    IN /\ HostRunning(t)
       /\ p \in 1 .. Len(plugins)
       /\ plugins[p].owner = t
       /\ callables' = IF r.kind = "Ok"
                       THEN callables \cup
                            {[plugin |-> p, name |-> name, hargs |-> Args, hrets |-> Rets]}
                       ELSE callables
       /\ panicking' = [panicking EXCEPT ![t] = (r.kind = "Panic")]
       /\ last' = [NoOp EXCEPT !.t = t,
                               !.op = IF r.kind = "Panic" THEN "panic" ELSE "bind",
                               !.kind = IF r.kind = "Panic" THEN "bind" ELSE r.kind,
                               !.plugin = p,
                               !.name = name, !.hargs = Args, !.hrets = Rets,
                               !.actual = r.actual, !.expected = r.expected,
                               !.acq = r.acq]
       /\ UNCHANGED <<plugins, stores, stack>>

\* ---------------------------------------------- the closure of a Function

StoreOf(c) == plugins[c.plugin].store

\* f(args): the closure starts with store.borrow_mut().
Invoke(t, c, args) ==
    LET sid == StoreOf(c)
        b == BorrowMut(stores[sid].flag)
    IN /\ HostRunning(t)
       /\ c \in callables
       /\ plugins[c.plugin].owner = t
       /\ args \in ArgTuples(c.hargs)
       /\ IF b.ok
          THEN /\ Len(stack[t]) < MaxDepth
               /\ stores' = [stores EXCEPT ![sid].flag = b.flag]
               /\ stack' = [stack EXCEPT ![t] = Append(@,
                        [c |-> c, args |-> args, pc |-> "marshal", vals |-> <<>>,
                         res |-> <<>>, ncalls |-> 0])]
               /\ UNCHANGED <<panicking, last>>
          ELSE /\ panicking' = [panicking EXCEPT ![t] = TRUE]
               /\ last' = [NoOp EXCEPT !.t = t, !.op = "panic", !.kind = "invoke",
                                       !.plugin = c.plugin, !.name = c.name,
                                       !.hargs = c.hargs, !.hrets = c.hrets,
                                       !.args = args, !.acq = "held"]
               /\ UNCHANGED <<stores, stack>>
       /\ UNCHANGED <<plugins, callables>>

\* Args::wasm_types(), args.into_array(store), and the zip with
\* Value::from_raw.
Marshal(t) ==
    /\ last.op = "none"
    /\ ~panicking[t]
    /\ stack[t] # <<>>
    /\ Top(t).pc = "marshal"
    /\ LET fr == Top(t)
           types == WasmTypes(fr.c.hargs)
           raws == IntoArray(fr.c.hargs, fr.args)
       IN stack' = [stack EXCEPT ![t][Len(stack[t])] =
                        [fr EXCEPT !.pc = "call", !.vals = ZipValues(raws, types)]]
    /\ UNCHANGED <<plugins, stores, callables, panicking, last>>

\* The engine called a second time when the first call trapped.
CallRetry(module, name, vs, glob) ==
    LET r1 == EngineCall(module, name, vs, glob)
        r2 == EngineCall(module, name, vs, r1.glob)
    IN IF r1.trap
       THEN [trap |-> r2.trap, res |-> r2.res, glob |-> r2.glob, ncalls |-> 2]
       ELSE [trap |-> r1.trap, res |-> r1.res, glob |-> r1.glob, ncalls |-> 1]

\* f.call(store, &args): one call of the engine.
Call(module, name, vs, glob) ==
    LET r == EngineCall(module, name, vs, glob)
    IN [trap |-> r.trap, res |-> r.res, glob |-> r.glob, ncalls |-> 1]

\* let result = f.call(store, &args)?;
GuestCall(t) ==
    /\ last.op = "none"
    /\ ~panicking[t]
    /\ stack[t] # <<>>
    /\ Top(t).pc = "call"
    /\ LET fr == Top(t)
           sid == StoreOf(fr.c)
           r == Call(plugins[fr.c.plugin].module, fr.c.name, fr.vals, stores[sid].glob)
       IN IF r.trap
          THEN /\ stack' = [stack EXCEPT ![t] = Pop(t)]
               /\ stores' = [stores EXCEPT ![sid].glob = r.glob,
                                           ![sid].flag = DropRefMut(@)]
               /\ last' = [NoOp EXCEPT !.t = t, !.op = "invoke", !.kind = "RuntimeError",
                                       !.plugin = fr.c.plugin, !.name = fr.c.name,
                                       !.hargs = fr.c.hargs, !.hrets = fr.c.hrets,
                                       !.args = fr.args, !.acq = "free",
                                       !.ncalls = fr.ncalls + r.ncalls]
          ELSE /\ stack' = [stack EXCEPT ![t][Len(stack[t])] =
                                [fr EXCEPT !.pc = "unmarshal", !.res = r.res,
                                           !.ncalls = fr.ncalls + r.ncalls]]
               /\ stores' = [stores EXCEPT ![sid].glob = r.glob]
               /\ UNCHANGED last
    /\ UNCHANGED <<plugins, callables, panicking>>

\* What unwrap_unchecked may yield on an Err: undefined behaviour.
UndefinedResults == {<<>>, <<0>>, <<-1>>}

\* as_raw of each result, Rets::from_slice(..).unwrap_unchecked(), Ok(result).
Return(t) ==
    /\ last.op = "none"
    /\ ~panicking[t]
    /\ stack[t] # <<>>
    /\ Top(t).pc = "unmarshal"
    /\ LET fr == Top(t)
           sid == StoreOf(fr.c)
           raws == [i \in 1 .. Len(fr.res) |-> AsRaw(fr.res[i])]
           fs == FromSlice(fr.c.hrets, raws)
       IN \E val \in (IF fs.ok THEN {fs.val} ELSE UndefinedResults) :
            /\ stack' = [stack EXCEPT ![t] = Pop(t)]
            /\ stores' = [stores EXCEPT ![sid].flag = DropRefMut(@)]
            /\ last' = [NoOp EXCEPT !.t = t, !.op = "invoke", !.kind = "Ok",
                                    !.plugin = fr.c.plugin, !.name = fr.c.name,
                                    !.hargs = fr.c.hargs, !.hrets = fr.c.hrets,
                                    !.args = fr.args, !.val = val, !.acq = "free",
                                    !.ncalls = fr.ncalls, !.conv = TRUE, !.ub = ~fs.ok]
    /\ UNCHANGED <<plugins, callables, panicking>>

\* A panic unwinds through the innermost closure of the thread: its RefMut
\* is dropped.
Unwind(t) ==
    /\ last.op = "none"
    /\ panicking[t]
    /\ stack[t] # <<>>
    /\ stack' = [stack EXCEPT ![t] = Pop(t)]
    /\ stores' = [stores EXCEPT ![StoreOf(Top(t).c)].flag = DropRefMut(@)]
    /\ UNCHANGED <<plugins, callables, panicking, last>>

\* The host code that made the failing call catches the panic
\* (catch_unwind) and goes on.
Catch(t) ==
    /\ last.op = "none"
    /\ panicking[t]
    /\ panicking' = [panicking EXCEPT ![t] = FALSE]
    /\ UNCHANGED <<plugins, stores, callables, stack, last>>

\* The caller takes the outcome of the operation that has just ended.
Taken ==
    /\ last.op # "none"
    /\ last' = NoOp
    /\ UNCHANGED <<plugins, stores, callables, stack, panicking>>

Next ==
    \/ Taken
    \/ \E t \in Threads :
        \/ \E path \in Paths : Load(t, path)
        \/ \E p \in 1 .. MaxPlugins, name \in Names, Args \in ArgLists, Rets \in RetLists :
                Bind(t, p, name, Args, Rets)
        \/ \E c \in callables : \E args \in ArgTuples(c.hargs) : Invoke(t, c, args)
        \/ Marshal(t)
        \/ GuestCall(t)
        \/ Return(t)
        \/ Unwind(t)
        \/ Catch(t)

Spec == Init /\ [][Next]_vars

\* ------------------------------------------------------------- properties

\* name is an exported function of module
IsExportedFunction(module, name) ==
    /\ name \in DOMAIN ModuleExports(module)
    /\ ModuleExports(module)[name].kind = "func"

\* the signature derived from the host types
Expected(hargs, hrets) == FunctionType(WasmTypes(hargs), WasmTypes(hrets))

\* the export's real signature equals the one derived from the host types
Verified(c) ==
    /\ c.plugin \in 1 .. Len(plugins)
    /\ IsExportedFunction(plugins[c.plugin].module, c.name)
    /\ ModuleExports(plugins[c.plugin].module)[c.name].ty = Expected(c.hargs, c.hrets)

\* the callable a bind of the operation o is about
CallableOf(o) == [plugin |-> o.plugin, name |-> o.name, hargs |-> o.hargs, hrets |-> o.hrets]

\* the invocations in progress through the execution context sid
FramesOn(sid) ==
    {<<t, i>> \in Threads \X (1 .. MaxDepth + 1) :
        i <= Len(stack[t]) /\ StoreOf(stack[t][i].c) = sid}

\* the borrow flag of plugin p's execution context
FlagOf(p) == stores[plugins[p].store].flag

\* C1: every callable that exists, held by a caller or running, and every
\* callable a bind has just returned, is one whose export's real signature
\* equals the signature derived from its host types; a bind returns a
\* callable only into the set of verified callables.
BindingIsVerification ==
    /\ \A c \in callables : Verified(c)
    /\ \A t \in Threads : \A i \in 1 .. Len(stack[t]) :
            stack[t][i].c \in callables /\ Verified(stack[t][i].c)
    /\ (last.op = "bind" /\ last.kind = "Ok") =>
            CallableOf(last) \in callables /\ Verified(CallableOf(last))
    /\ (last.op = "bind" /\ last.kind # "Ok") => ~Verified(CallableOf(last))

\* a bind has just returned a callable
C1Witness ==
    /\ last.op = "bind"
    /\ last.kind = "Ok"
    /\ CallableOf(last) \in callables

\* C2: a bind of a name that is not an exported function of the module
\* returns ExportError, whatever host types are requested and whether or not
\* the execution context is held: the store is not borrowed and no signature
\* is read or compared.
MissingExportIsExportError ==
    (/\ last.op \in {"bind", "panic"}
     /\ last.name \in Names
     /\ ~IsExportedFunction(plugins[last.plugin].module, last.name))
    => (/\ last.op = "bind"
        /\ last.kind = "ExportError"
        /\ last.acq = "none"
        /\ last.actual = NoSig /\ last.expected = NoSig
        /\ CallableOf(last) \notin callables)

\* a bind of the memory export has returned ExportError while an invocation
\* holds the plugin's execution context
C2Witness ==
    /\ last.op = "bind"
    /\ last.kind = "ExportError"
    /\ last.name = "mem"
    /\ FlagOf(last.plugin) = -1

\* C3: a bind of an exported function with host types whose kinds differ
\* from the export's signature, in a parameter, in a result or in their
\* number, returns TypeMismatchError whose actual is the export's signature
\* and whose expected is the signature derived from the host types; the two
\* differ exactly where the kinds differ, and no callable exists for the
\* pair.
MismatchIsTypeMismatchError ==
    (/\ last.op = "bind"
     /\ IsExportedFunction(plugins[last.plugin].module, last.name)
     /\ ModuleExports(plugins[last.plugin].module)[last.name].ty
            # Expected(last.hargs, last.hrets))
    => (/\ last.kind = "TypeMismatchError"
        /\ last.actual = ModuleExports(plugins[last.plugin].module)[last.name].ty
        /\ last.expected = [params |-> [i \in 1 .. Len(last.hargs) |-> WasmType(last.hargs[i])],
                            results |-> [i \in 1 .. Len(last.hrets) |-> WasmType(last.hrets[i])]]
        /\ last.actual # last.expected
        /\ CallableOf(last) \notin callables)

\* add bound as (i32, i64) -> i32 has returned TypeMismatchError: expected
\* differs from actual in the second parameter only
C3Witness ==
    /\ last.op = "bind"
    /\ last.kind = "TypeMismatchError"
    /\ last.name = "add"
    /\ last.hargs = <<"i32", "i64">>
    /\ last.actual = FunctionType(<<"I32", "I32">>, <<"I32">>)
    /\ last.expected = FunctionType(<<"I32", "I64">>, <<"I32">>)

\* C4: at most one invocation is in progress through an execution context,
\* and from its borrow_mut to its return, through argument marshalling, the
\* guest call and result marshalling, the context is mutably borrowed by it.
MutualExclusion ==
    \A sid \in 1 .. Len(stores) :
        /\ Cardinality(FramesOn(sid)) <= 1
        /\ FramesOn(sid) # {} => stores[sid].flag = -1

\* two threads are each inside the guest call of an invocation, on different
\* plugins
C4Witness ==
    \E t1, t2 \in Threads :
        /\ t1 # t2
        /\ stack[t1] # <<>> /\ stack[t2] # <<>>
        /\ Top(t1).pc = "call" /\ Top(t2).pc = "call"
        /\ Top(t1).c.plugin # Top(t2).c.plugin

\* the step in which a thread starts to panic
StartsPanic(t) == ~panicking[t] /\ panicking'[t]

\* the step pushes an invocation on thread t
Pushes(t) == Len(stack'[t]) > Len(stack[t])

\* what C5 asks of one step
FailFastStep ==
    /\ \A t \in Threads :
        /\ StartsPanic(t) =>
            /\ last'.op = "panic"
            /\ last'.t = t
            /\ FlagOf(last'.plugin) # 0
            /\ UNCHANGED <<plugins, stores, callables, stack>>
        /\ Pushes(t) =>
            /\ stores[StoreOf(stack'[t][Len(stack'[t])].c)].flag = 0
            /\ ~panicking'[t]
    /\ (last.op = "none" /\ last'.op = "bind" /\ last'.kind \in {"Ok", "TypeMismatchError"})
            => FlagOf(last'.plugin) >= 0 /\ FramesOn(plugins[last'.plugin].store) = {}

\* C5: an invocation or a bind that reaches the borrow of a held execution
\* context panics there: the step changes no context, no invocation in
\* progress, no callable and no plugin; an invocation is pushed only through
\* a free context, and a bind reads and compares a signature only through a
\* context that is not mutably borrowed.
ReentrantAcquireFailsFast == [][FailFastStep]_vars

\* an invocation started inside the argument conversion of an invocation of
\* the same plugin has panicked; the outer invocation is as it was
C5Witness ==
    /\ last.op = "panic"
    /\ last.kind = "invoke"
    /\ panicking[last.t]
    /\ stack[last.t] # <<>>
    /\ Top(last.t).c.plugin = last.plugin
    /\ Top(last.t).pc = "marshal"
    /\ FlagOf(last.plugin) = -1

\* every plugin has an execution context of its own
DistinctStores ==
    /\ Len(stores) = Len(plugins)
    /\ \A p, q \in 1 .. Len(plugins) :
            /\ plugins[p].store \in 1 .. Len(stores)
            /\ p # q => plugins[p].store # plugins[q].store

\* the step is one of an invocation of plugin q
ActsOn(q) ==
    \E t \in Threads :
        /\ stack'[t] # stack[t]
        /\ IF Pushes(t)
           THEN stack'[t][Len(stack'[t])].c.plugin = q
           ELSE Top(t).c.plugin = q

\* what C6 asks of one step
IndependenceStep ==
    /\ DistinctStores'
    /\ Len(plugins') > Len(plugins) =>
            /\ plugins'[Len(plugins')].store = Len(stores) + 1
            /\ stores'[Len(stores')] = [flag |-> 0, glob |-> 0]
    /\ \A q \in 1 .. Len(plugins) :
            /\ plugins'[q] = plugins[q]
            /\ stores'[plugins[q].store] # stores[plugins[q].store] => ActsOn(q)

\* C6: a load creates a new execution context for the plugin it returns, no
\* two plugins share one, and a step changes the context of a plugin, its
\* borrow flag or its guest state, only when it is a step of an invocation of
\* that plugin; a plugin's instance never changes.
IndependentContexts == [][IndependenceStep]_vars

\* two plugins loaded from the same path, one with its guest state changed
\* by a call, the other untouched
C6Witness ==
    \E p, q \in 1 .. Len(plugins) :
        /\ p # q
        /\ plugins[p].path = plugins[q].path
        /\ stores[plugins[p].store].glob = 42
        /\ stores[plugins[q].store].glob = 0

\* C7: an invocation passes to the export, once marshalled, the host
\* arguments as values of the export's parameter kinds in declared order; an
\* invocation of add bound as (i32, i32) -> i32 that returns, returns
\* Ok(a + b) with the sum taken modulo 2^32 (f(42, 1) = 43), a value that
\* depends on the arguments alone, and is never the outcome of undefined
\* behaviour.
InvokeReturnsGuestResult ==
    /\ \A t \in Threads : \A i \in 1 .. Len(stack[t]) :
        LET fr == stack[t][i]
            ty == ModuleExports(plugins[fr.c.plugin].module)[fr.c.name].ty
        IN fr.pc \in {"call", "unmarshal"} =>
            /\ Len(fr.vals) = Len(fr.args)
            /\ \A k \in 1 .. Len(fr.args) :
                    fr.vals[k] = [ty |-> ty.params[k], v |-> fr.args[k]]
    /\ last.op = "invoke" => ~last.ub
    /\ (/\ last.op = "invoke"
        /\ plugins[last.plugin].module = "add"
        /\ last.name = "add"
        /\ last.hargs = <<"i32", "i32">>
        /\ last.hrets = <<"i32">>)
       => (/\ last.kind = "Ok"
           /\ last.val = <<Signed32(Add32(Bits32(last.args[1]), Bits32(last.args[2])))>>
           /\ last.args = <<42, 1>> => last.val = <<43>>
           /\ last.args = <<2147483647, 1>> => last.val = <<-2147483647 - 1>>
           /\ last.args = <<-1, 42>> => last.val = <<41>>)

\* f(42, 1) has returned Ok(43)
C7Witness ==
    /\ last.op = "invoke"
    /\ last.kind = "Ok"
    /\ last.name = "add"
    /\ last.args = <<42, 1>>
    /\ last.val = <<43>>

\* the guest code of the export traps on the host arguments args
GuestTraps(module, name, args) ==
    LET ty == ModuleExports(module)[name].ty
    IN GuestEval(module, name, [k \in 1 .. Len(args) |-> [ty |-> ty.params[k], v |-> args[k]]], 0).trap

\* C8: an invocation whose guest call traps returns RuntimeError after one
\* call of the engine and without a result conversion; an invocation
\* returns RuntimeError only then; no invocation calls the engine twice.
TrapIsRuntimeErrorOnce ==
    /\ last.op = "invoke" =>
        /\ last.kind \in {"Ok", "RuntimeError"}
        /\ last.ncalls = 1
        /\ (last.kind = "RuntimeError") =
                GuestTraps(plugins[last.plugin].module, last.name, last.args)
        /\ last.kind = "RuntimeError" => ~last.conv /\ last.val = <<>>
        /\ FramesOn(plugins[last.plugin].store) = {}
    /\ \A t \in Threads : \A i \in 1 .. Len(stack[t]) :
        stack[t][i].ncalls = (IF stack[t][i].pc = "unmarshal" THEN 1 ELSE 0)

\* swap(0) has trapped and the invocation has returned RuntimeError
C8Witness ==
    /\ last.op = "invoke"
    /\ last.kind = "RuntimeError"
    /\ last.name = "swap"
    /\ last.args = <<0>>
    /\ last.ncalls = 1

\* the path can be read, its bytes compile, and the module declares no
\* import
Loadable(path) ==
    /\ ReadFile(path).ok
    /\ Compile(ReadFile(path).bytes).ok
    /\ ModuleImports(Compile(ReadFile(path).bytes).module) = {}

\* C9: a load returns LoadError and adds no plugin exactly when the file
\* cannot be read, its bytes do not compile or the instantiation with no
\* imports fails; the stages run in the order read, compile, instantiate and
\* stop at the first failure; every plugin that exists is of a path for which
\* all three succeed.
LoadFailsWithLoadError ==
    /\ last.op = "load" =>
        /\ last.kind \in {"Ok", "LoadError"}
        /\ (last.kind = "LoadError") = ~Loadable(last.path)
        /\ last.kind = "LoadError" => last.plugin = 0
        /\ last.kind = "Ok" =>
            /\ last.plugin = Len(plugins)
            /\ plugins[last.plugin].path = last.path
            /\ last.stages = <<"read", "compile", "instantiate">>
        /\ last.stages =
            IF ~ReadFile(last.path).ok THEN <<"read">>
            ELSE IF ~Compile(ReadFile(last.path).bytes).ok THEN <<"read", "compile">>
            ELSE <<"read", "compile", "instantiate">>
    /\ \A p \in 1 .. Len(plugins) :
        /\ Loadable(plugins[p].path)
        /\ plugins[p].module = Compile(ReadFile(plugins[p].path).bytes).module

\* the load of a module that declares an import has returned LoadError after
\* read and compile succeeded, with a plugin already loaded and none added
C9Witness ==
    /\ last.op = "load"
    /\ last.kind = "LoadError"
    /\ last.path = "imports.wasm"
    /\ last.stages = <<"read", "compile", "instantiate">>
    /\ Len(plugins) = 1

====
